---- MODULE Spec2Model ----
(***************************************************************************)
(* Model of the semantic retrieval pipeline of kaljuvee/chess-agent:       *)
(*   src/tasks/create_index.py  (chunking, embedding, index build, save)   *)
(*   src/utils/query.py         (search_games, format_game_with_llm)       *)
(*                                                                         *)
(* Four specifications share the variables:                                *)
(*   SpecLoad   load_pgn_files over bounded archive directories            *)
(*   SpecChunk  chunk_text and chunk_documents applied to bounded inputs   *)
(*   SpecBuild  runs of create_index.main, step by step, calls and writes  *)
(*              failing where they may                                     *)
(*   Spec       calls of search_games over a store filled by completed     *)
(*              runs of main                                               *)
(* The build and the search are separate, synchronous processes; one       *)
(* operation runs at a time.  utils/embeddings_util.py (load_all_metadata, *)
(* load_embeddings_and_index) is not among the sources and is modelled     *)
(* from the specification of the index store.                              *)
(*                                                                         *)
(* TEXTS.  A Python str is modelled by the list of its whitespace-         *)
(* separated words, run-length encoded (runs of one repeated word), plus   *)
(* `pad`, the number of surplus whitespace characters it carries (0 for a  *)
(* string whose words are separated by exactly one blank and that has no   *)
(* leading or trailing blank).  str.split() forgets pad, ' '.join(...)     *)
(* produces pad 0, and two strings are equal iff words and pad are equal.  *)
(***************************************************************************)
EXTENDS Integers, Sequences, FiniteSets, TLC

VARIABLES
    text,        \* SpecChunk: the description handed to chunk_text
    chunks,      \* SpecChunk: what chunk_text returned for it
    documents,   \* SpecChunk: the records handed to chunk_documents
    chunked,     \* SpecChunk: chunk_documents(documents)
    rechunked,   \* SpecChunk: chunk_documents(chunked)
    cpc,         \* SpecChunk: position of the chunking driver
    load,        \* SpecLoad: the call of load_pgn_files in progress
    files,       \* the store directory embeddings/: path -> content
    uuids,       \* how many uuid4() identifiers have been drawn
    build,       \* the run of create_index.main in progress
    search       \* the call of search_games in progress

cvars == <<text, chunks, documents, chunked, rechunked, cpc, load>>
pvars == <<files, uuids, build, search>>
vars == <<text, chunks, documents, chunked, rechunked, cpc, load,
          files, uuids, build, search>>

----------------------------------------------------------------------------
(* Bounds of the model *)

\* surplus whitespace characters a description may carry
MaxPad == 1
\* records in one batch handed to chunk_documents
MaxRecords == 2
\* longest description, in strides of chunk_size - overlap words
MaxStrides == 3
\* bundles saved into the store (uuid4 identifiers drawn)
MaxBuilds == 2
\* largest num_results asked of search_games
MaxK == 3
\* archive files in data/
MaxFiles == 2

----------------------------------------------------------------------------
(* Constants of create_index.py *)

MAX_TOKENS_PER_CHUNK == 6000
\* WORDS_PER_TOKEN = 0.75 = WORDS_PER_TOKEN_NUM / WORDS_PER_TOKEN_DEN
WORDS_PER_TOKEN_NUM == 3
WORDS_PER_TOKEN_DEN == 4
chunk_size == 3000
overlap == 100

None == "None"

\* str(uuid.uuid4()): the n-th identifier drawn; no two draws are equal
Uuid(n) == <<"uuid", n>>
\* None where an identifier is expected
NoId == <<>>

----------------------------------------------------------------------------
(* Strings as run-length encoded word lists *)

Run(w, n) == [w |-> w, n |-> n]

\* a word list with its empty runs removed and equal neighbours merged
RECURSIVE Canon(_)
Canon(runs) ==
    IF runs = <<>> THEN <<>>
    ELSE IF Head(runs).n = 0 THEN Canon(Tail(runs))
    ELSE LET rest == Canon(Tail(runs)) IN
         IF rest # <<>> /\ Head(rest).w = Head(runs).w
         THEN <<Run(Head(runs).w, Head(runs).n + Head(rest).n)>> \o Tail(rest)
         ELSE <<Head(runs)>> \o rest

\* len(words)
RECURSIVE WordCount(_)
WordCount(words) ==
    IF words = <<>> THEN 0 ELSE Head(words).n + WordCount(Tail(words))

\* words[k:]
RECURSIVE Drop(_, _)
Drop(words, k) ==
    IF k = 0 \/ words = <<>> THEN words
    ELSE IF Head(words).n <= k THEN Drop(Tail(words), k - Head(words).n)
    ELSE <<Run(Head(words).w, Head(words).n - k)>> \o Tail(words)

\* words[:k]
RECURSIVE Take(_, _)
Take(words, k) ==
    IF k = 0 \/ words = <<>> THEN <<>>
    ELSE IF Head(words).n <= k
         THEN <<Head(words)>> \o Take(Tail(words), k - Head(words).n)
    ELSE <<Run(Head(words).w, k)>>

\* words[i:j] for 0 <= i <= j (Python clamps j to len(words))
Slice(words, i, j) == Take(Drop(words, i), j - i)

\* text.split()
Split(t) == t.runs

\* ' '.join(words)
Join(words) == [runs |-> words, pad |-> 0]

\* ' '.join(chunk.split())
chunk_normalized(chunk) == Join(Split(chunk))

----------------------------------------------------------------------------
(* chunk_text *)

\* the loop of chunk_text: for i in range(i, len(words), size - ov)
RECURSIVE Windows(_, _, _, _)
Windows(words, i, size, ov) ==
    IF i >= WordCount(words) THEN <<>>
    ELSE <<Join(Slice(words, i, i + size))>>
         \o Windows(words, i + (size - ov), size, ov)

\* chunk_text with its three parameters made explicit
ChunkTextWith(t, max_tokens, size, ov) ==
    LET words == Split(t)
        total_words == WordCount(words)
    IN  \* total_words / WORDS_PER_TOKEN <= max_tokens
        IF total_words * WORDS_PER_TOKEN_DEN <= max_tokens * WORDS_PER_TOKEN_NUM
        THEN <<t>>
        ELSE Windows(words, 0, size, ov)

\* faulty variant: the stride forgets the overlap (range(0, len(words), chunk_size))
chunk_text_no_overlap(t) == ChunkTextWith(t, MAX_TOKENS_PER_CHUNK, chunk_size, 0)

\* faulty variant: the loop stops once the words are covered, dropping a final window
\* that lies inside its predecessor
chunk_text_covering(t) ==
    LET all == ChunkTextWith(t, MAX_TOKENS_PER_CHUNK, chunk_size, overlap)
        w == WordCount(Split(t))
        n == Len(all)
    IN  IF n >= 2 /\ (n - 2) * (chunk_size - overlap) + chunk_size >= w
        THEN SubSeq(all, 1, n - 1) ELSE all

\* faulty variant: windows wider than the budget below which a text is left whole
chunk_text_wide(t) ==
    ChunkTextWith(t, MAX_TOKENS_PER_CHUNK, 2 * chunk_size, overlap)

chunk_text(t) == ChunkTextWith(t, MAX_TOKENS_PER_CHUNK, chunk_size, overlap)

----------------------------------------------------------------------------
(* chunk_documents *)

Doc(description, source) == [description |-> description, source |-> source]

NoChunks == [seen_chunks |-> {}, chunked_documents |-> <<>>]

\* faulty variant: the membership test uses the chunk itself, not its normal form
RECURSIVE chunk_loop_raw(_, _, _)
chunk_loop_raw(cs, source, st) ==
    IF cs = <<>> THEN st
    ELSE LET chunk == Head(cs) IN
         chunk_loop_raw(Tail(cs), source,
            IF chunk \notin st.seen_chunks
            THEN [seen_chunks |-> st.seen_chunks \cup {chunk},
                  chunked_documents |->
                      Append(st.chunked_documents, Doc(chunk, source))]
            ELSE st)

\* the inner loop of chunk_documents: for chunk in chunks
RECURSIVE chunk_loop(_, _, _)
chunk_loop(cs, source, st) ==
    IF cs = <<>> THEN st
    ELSE LET chunk == Head(cs)
             chunk_norm == chunk_normalized(chunk) IN
         chunk_loop(Tail(cs), source,
            IF chunk_norm \notin st.seen_chunks
            THEN [seen_chunks |-> st.seen_chunks \cup {chunk_norm},
                  chunked_documents |->
                      Append(st.chunked_documents, Doc(chunk, source))]
            ELSE st)

\* the outer loop of chunk_documents: for doc in documents
RECURSIVE doc_loop(_, _)
doc_loop(docs, st) ==
    IF docs = <<>> THEN st
    ELSE doc_loop(Tail(docs),
                  chunk_loop(chunk_text(Head(docs).description),
                             Head(docs).source, st))

chunk_documents(docs) == doc_loop(docs, NoChunks).chunked_documents

----------------------------------------------------------------------------
(* The store: the files of embeddings/, named from the bundle's index_id *)

EMBEDDING_MODEL == "text-embedding-3-large"

Path(kind, index_id) == <<kind, index_id>>

write(fs, path, content) ==
    [p \in DOMAIN fs \cup {path} |-> IF p = path THEN content ELSE fs[p]]

\* the manifest written by save_metadata (creation_date left out)
metadata_of(embedding_model, index_id) ==
    [dataset_id |-> index_id,
     embedding_model |-> embedding_model,
     index_id |-> index_id,
     files |-> [embeddings |-> Path("embeddings", index_id),
                index |-> Path("index", index_id),
                documents |-> Path("processed_documents", index_id)]]

\* save_metadata: the manifest goes to embeddings/metadata_<index_id>.json
save_metadata(fs, embedding_model, index_id) ==
    write(fs, Path("metadata", index_id), metadata_of(embedding_model, index_id))

\* what an interrupted write leaves at its path: a file that cannot be read
\* back
Truncated == [truncated |-> TRUE]

\* faulty variant: the manifest is written before the artifacts it names
write_order_manifest_first ==
    <<"save_metadata", "save_embeddings", "save_index", "save_documents">>

\* lines 184-201: the order of the four writes of save_embeddings_and_index
write_order ==
    <<"save_embeddings", "save_index", "save_documents", "save_metadata">>

\* the step that follows a write, "done" after the last one
after_write(pc) ==
    LET i == CHOOSE j \in 1..Len(write_order) : write_order[j] = pc
    IN  IF i = Len(write_order) THEN "done" ELSE write_order[i + 1]

\* the kind of file a step writes
step_kind(pc) ==
    CASE pc = "save_embeddings" -> "embeddings"
      [] pc = "save_index" -> "index"
      [] pc = "save_documents" -> "processed_documents"
      [] pc = "save_metadata" -> "metadata"

\* the identifiers that occur in a file name of the store
StoredIds == {p[2] : p \in DOMAIN files}

\* save_embeddings_and_index once index_id is drawn: the three artifacts,
\* then the manifest
save_embeddings_and_index(fs, embeddings, index, processed_documents, embedding_model, index_id) ==
    save_metadata(
        write(write(write(fs, Path("embeddings", index_id), embeddings),
                    Path("index", index_id), index),
              Path("processed_documents", index_id), processed_documents),
        embedding_model, index_id)

----------------------------------------------------------------------------
(* search_games: the data of one call *)

\* no vector yet
NoVector == [space |-> <<>>, pt |-> 0]

NoSearch ==
    [pc |-> "idle", query |-> None, num_results |-> 0, dataset_id |-> NoId,
     return_str |-> FALSE, all_metadata |-> <<>>, metadata |-> None,
     index |-> None, processed_documents |-> <<>>, model_name |-> None,
     encoder |-> None, query_embedding |-> NoVector, D |-> <<>>, I |-> <<>>,
     results |-> <<>>, outcome |-> None, output |-> None,
     calls |-> 0, previous |-> None]

\* lines 54, 60 and 70: the messages a call can end with before it searches
MSG_NO_KEY == "Error: OPENAI_API_KEY environment variable not set"

MSG_NO_INDEX == "No embeddings found. Please run create_index.py first."

MSG_LOAD_FAILED ==
    "Failed to load embeddings. Please check the embeddings directory."

\* every order in which the members of S can be listed
Orderings(S) ==
    {f \in [1..Cardinality(S) -> S] :
        \A i, j \in 1..Cardinality(S) : i # j => f[i] # f[j]}

\* load_all_metadata(): every manifest of the store, in some order
load_all_metadata(fs) ==
    Orderings({fs[p] : p \in {q \in DOMAIN fs : q[1] = "metadata"}})

\* load_embeddings_and_index(metadata): the three artifacts the manifest
\* names and its embedding_model, or four None when a file is missing
load_embeddings_and_index(fs, metadata) ==
    IF /\ metadata.files.embeddings \in DOMAIN fs
       /\ metadata.files.index \in DOMAIN fs
       /\ metadata.files.documents \in DOMAIN fs
    THEN [ok |-> TRUE,
          embeddings |-> fs[metadata.files.embeddings],
          index |-> fs[metadata.files.index],
          processed_documents |-> fs[metadata.files.documents],
          model_name |-> metadata.embedding_model]
    ELSE [ok |-> FALSE, embeddings |-> None, index |-> None,
          processed_documents |-> <<>>, model_name |-> None]

\* next((m for m in ms if m['dataset_id'] == dataset_id), default)
RECURSIVE next_match(_, _, _)
next_match(ms, dataset_id, default) ==
    IF ms = <<>> THEN default
    ELSE IF Head(ms).dataset_id = dataset_id THEN Head(ms)
    ELSE next_match(Tail(ms), dataset_id, default)

\* faulty variant: the first manifest is taken whatever dataset_id says
resolve_first(all_metadata, dataset_id) == all_metadata[1]

\* faulty variant: without a match the last manifest listed is taken
resolve_last(all_metadata, dataset_id) ==
    next_match(all_metadata, dataset_id, all_metadata[Len(all_metadata)])

\* line 64: the manifest with the dataset_id asked for, else the first
resolve_metadata(all_metadata, dataset_id) ==
    next_match(all_metadata, dataset_id, all_metadata[1])

\* the default of os.getenv('MODEL', 'gpt-3.5-turbo')
MODEL_DEFAULT == "gpt-3.5-turbo"

\* faulty variant: the encoder is named by the ambient MODEL setting
encoder_from_env(model_name) == MODEL_DEFAULT

\* line 77: the identifier handed to SentenceTransformer
encoder_model(model_name) == model_name

\* faulty variant: the message is printed whatever return_str says
returned_printed(s, output) ==
    [s EXCEPT !.pc = "done", !.outcome = "printed", !.output = output]

\* the end of a call: a value returned (a string in return_str mode, None
\* after printing otherwise) or an exception leaving search_games
returned(s, output) ==
    [s EXCEPT !.pc = "done",
              !.outcome = IF s.return_str THEN "returned" ELSE "printed",
              !.output = output]

raised(s, exception) ==
    [s EXCEPT !.pc = "done", !.outcome = "raised", !.output = exception]

\* the rounds of the loop over zip(D[0], I[0])
hits(I) == Len(I)

----------------------------------------------------------------------------
(* The embedding capability and the flat L2 index *)

\* The hosted embedding model is a fixed function of the text it is given;
\* its value is a point on a line here, different for the texts of the model.
EmbeddingPoint(t) == (MaxPad + 1) * WordCount(Split(t)) + t.pad

\* client.embeddings.create(model=..., input=...).data[0].embedding
OpenAIEmbedding(model, input) ==
    [space |-> <<"openai", model>>, pt |-> EmbeddingPoint(input)]

\* largest float32, the distance faiss reports for a hit it does not have
FLT_MAX == 2147483647

\* create_faiss_index: IndexFlatL2(embeddings.shape[1]) with the vectors added
create_faiss_index(embeddings) ==
    [d |-> embeddings[1].space, xb |-> embeddings]

\* squared Euclidean distance
L2(a, b) == (a.pt - b.pt) * (a.pt - b.pt)

\* the positions (0-based) of the stored vectors, nearest first, ties in
\* construction order
RECURSIVE Nearest(_, _, _)
Nearest(xb, q, left) ==
    IF left = {} THEN <<>>
    ELSE LET best == CHOOSE i \in left : \A j \in left :
                        \/ L2(xb[i + 1], q) < L2(xb[j + 1], q)
                        \/ L2(xb[i + 1], q) = L2(xb[j + 1], q) /\ i <= j
         IN  <<best>> \o Nearest(xb, q, left \ {best})

\* index.search(q, k) of IndexFlatL2: k distances and k labels; when the
\* index holds n < k vectors the last k - n labels are -1
index_search(index, q, k) ==
    LET n == Len(index.xb)
        order == Nearest(index.xb, q, 0..(n - 1))
    IN  [D |-> [r \in 1..k |->
                  IF r <= n THEN L2(index.xb[order[r] + 1], q) ELSE FLT_MAX],
         I |-> [r \in 1..k |-> IF r <= n THEN order[r] ELSE -1]]

\* list[i] of Python for -len(list) <= i < len(list)
PyIndex(list, i) == IF i >= 0 THEN list[i + 1] ELSE list[Len(list) + i + 1]

----------------------------------------------------------------------------
(* create_index.main: load, chunk, embed, index, save *)

\* the archives of the model: the games load_pgn_files extracts from data/
GameA == [runs |-> <<Run("e4", 1)>>, pad |-> 0]
GameA2 == [runs |-> <<Run("e4", 1)>>, pad |-> 1]
GameB == [runs |-> <<Run("e4", 2)>>, pad |-> 0]

Archives ==
    {<<>>,
     <<Doc(GameA, "a.pgn")>>,
     <<Doc(GameA, "a.pgn"), Doc(GameA2, "b.pgn"), Doc(GameB, "b.pgn")>>}

NoBuild ==
    [pc |-> "idle", documents |-> <<>>, processed_documents |-> <<>>,
     i |-> 0, embeddings |-> <<>>, index |-> None, index_id |-> NoId,
     written |-> {}, outcome |-> None]

\* create_embeddings, the whole loop when no call fails
create_embeddings(docs) ==
    [i \in 1..Len(docs) |-> OpenAIEmbedding(EMBEDDING_MODEL, docs[i].description)]

\* faulty variant: a failed embedding call is skipped and the loop goes on
embedding_failure_skipped(b) == [b EXCEPT !.i = b.i + 1]

\* client.embeddings.create raises in create_embeddings: nothing catches it,
\* main ends
embedding_failure(b) == [b EXCEPT !.pc = "done", !.outcome = "embedding_failed"]

----------------------------------------------------------------------------
(* load_pgn_files: the data of one call *)

\* line 53: the encodings, in the order they are tried
ENCODINGS == <<"utf-8", "latin-1", "iso-8859-1", "cp1252">>

\* the parts content.split('\n\n[') cuts a file into: a game read_game
\* parses, a part it raises on or returns None for, a blank part
GameBlock(description) == [kind |-> "game", description |-> description]
BadBlock == [kind |-> "bad", description |-> [runs |-> <<>>, pad |-> 0]]
BlankBlock == [kind |-> "blank", description |-> [runs |-> <<>>, pad |-> 0]]

\* os.path.basename of the i-th path of glob.glob('data/*.pgn')
PgnName(i) == <<"pgn", i>>

\* lines 61-101: the loop over the games of one decoded file
RECURSIVE read_games(_, _, _)
read_games(games, source, acc) ==
    IF games = <<>> THEN acc
    ELSE LET game == Head(games)
             counted == [acc EXCEPT !.game_count = @ + 1]
         IN  IF game.kind = "blank"
             THEN read_games(Tail(games), source, acc)
             ELSE IF game.kind = "bad"
             THEN read_games(Tail(games), source, counted)
             ELSE read_games(Tail(games), source,
                    [counted EXCEPT !.documents =
                        Append(@, Doc(game.description, source))])

\* per file: the encodings tried, those the games were extracted under, and
\* the records appended
NoLog == [tried |-> <<>>, used |-> <<>>, records |-> 0]

NoLoad ==
    [pc |-> "idle", pgn_files |-> <<>>, f |-> 0, e |-> 0,
     documents |-> <<>>, total_games |-> 0, log |-> <<>>]

\* the loop over the encodings goes on, or is exhausted and the next file
\* is taken
next_encoding(l) ==
    IF l.e = Len(ENCODINGS) THEN [l EXCEPT !.f = @ + 1, !.e = 1]
    ELSE [l EXCEPT !.e = @ + 1]

\* faulty variant: no break after a successful read
after_decode_no_break(l) == next_encoding(l)

\* line 105, break: the next file is taken
after_decode(l) == [l EXCEPT !.f = @ + 1, !.e = 1]

\* lines 107-110, except UnicodeDecodeError: ... continue
after_decode_error(l) == next_encoding(l)

----------------------------------------------------------------------------
(* SpecChunk: chunk_text and chunk_documents applied to bounded inputs *)

Stride == chunk_size - overlap

\* word counts around every place where the number of windows changes
TextLens ==
    {q * Stride + r : q \in 0..MaxStrides, r \in {0, 1, overlap, overlap + 1}}
    \cup {chunk_size, 4500, 4501}

\* a description of w words: "e4" up to word b, "e5" from there on
Words(w, b) ==
    Canon(<<Run("e4", IF b < w THEN b ELSE w),
            Run("e5", IF b < w THEN w - b ELSE 0)>>)

Texts ==
    {[runs |-> Words(w, b), pad |-> p] :
        w \in TextLens, b \in {2950, 2 * Stride + overlap}, p \in 0..MaxPad}

\* the descriptions of the batches handed to chunk_documents
BatchTexts ==
    {[runs |-> Words(w, 2 * Stride + overlap), pad |-> p] :
        w \in {1, chunk_size, 4501, 3 * Stride + 1}, p \in 0..MaxPad}

Sources == {"a.pgn", "b.pgn"}

ChunkIdle ==
    /\ text = None
    /\ chunks = <<>>
    /\ documents = <<>>
    /\ chunked = <<>>
    /\ rechunked = <<>>
    /\ cpc = "input"
    /\ load = NoLoad

InitChunk ==
    /\ ChunkIdle
    /\ files = <<>>
    /\ uuids = 0
    /\ build = NoBuild
    /\ search = NoSearch

\* a description is chosen and chunk_text is applied to it
ChunkText ==
    /\ cpc = "input"
    /\ documents = <<>>
    /\ \E t \in Texts :
        /\ text' = t
        /\ chunks' = chunk_text(t)
    /\ cpc' = "chunk_text"
    /\ UNCHANGED <<documents, chunked, rechunked, load>>
    /\ UNCHANGED pvars

\* one more record joins the batch (load_pgn_files appends to documents)
AddRecord ==
    /\ cpc = "input"
    /\ Len(documents) < MaxRecords
    /\ \E t \in BatchTexts, s \in Sources :
        documents' = Append(documents, Doc(t, s))
    /\ UNCHANGED <<text, chunks, chunked, rechunked, cpc, load>>
    /\ UNCHANGED pvars

\* processed_documents = chunk_documents(documents)
ChunkDocuments ==
    /\ cpc = "input"
    /\ documents # <<>>
    /\ chunked' = chunk_documents(documents)
    /\ cpc' = "chunked"
    /\ UNCHANGED <<text, chunks, documents, rechunked, load>>
    /\ UNCHANGED pvars

\* the dedup pass run again on its own output
RechunkDocuments ==
    /\ cpc = "chunked"
    /\ rechunked' = chunk_documents(chunked)
    /\ cpc' = "rechunked"
    /\ UNCHANGED <<text, chunks, documents, chunked, load>>
    /\ UNCHANGED pvars

NextChunk == ChunkText \/ AddRecord \/ ChunkDocuments \/ RechunkDocuments

SpecChunk == InitChunk /\ [][NextChunk]_vars

----------------------------------------------------------------------------
(* SpecLoad: load_pgn_files, one read per step *)

\* what a file of data/ may hold
PgnContents ==
    {<<BlankBlock>>,
     <<GameBlock(GameA)>>,
     <<GameBlock(GameA), BadBlock, GameBlock(GameB)>>}

PgnDirs == UNION {[1..n -> PgnContents] : n \in 0..MaxFiles}

InitLoad ==
    /\ ChunkIdle
    /\ files = <<>>
    /\ uuids = 0
    /\ build = NoBuild
    /\ search = NoSearch

\* lines 46-48: glob.glob('data/*.pgn')
LoadStart ==
    /\ load.pc = "idle"
    /\ \E pgn_files \in PgnDirs :
        load' = [NoLoad EXCEPT !.pc = "files", !.pgn_files = pgn_files,
                               !.f = 1, !.e = 1,
                               !.log = [i \in 1..Len(pgn_files) |-> NoLog]]
    /\ UNCHANGED <<text, chunks, documents, chunked, rechunked, cpc>>
    /\ UNCHANGED pvars

\* lines 55-105: the file decodes under the encoding, its games are
\* extracted.  (Which encodings decode a file is left open: under CPython
\* latin-1 decodes every file, and nothing here relies on it.)
ReadDecodes ==
    /\ load.pc = "files"
    /\ load.f <= Len(load.pgn_files)
    /\ LET read == read_games(load.pgn_files[load.f], PgnName(load.f),
                       [documents |-> load.documents, game_count |-> 0])
       IN  load' = after_decode([load EXCEPT
               !.documents = read.documents,
               !.total_games = @ + read.game_count,
               !.log[load.f].tried = Append(@, ENCODINGS[load.e]),
               !.log[load.f].used = Append(@, ENCODINGS[load.e]),
               !.log[load.f].records =
                    @ + Len(read.documents) - Len(load.documents)])
    /\ UNCHANGED <<text, chunks, documents, chunked, rechunked, cpc>>
    /\ UNCHANGED pvars

\* lines 56 and 107-110: f.read() raises UnicodeDecodeError
ReadFails ==
    /\ load.pc = "files"
    /\ load.f <= Len(load.pgn_files)
    /\ load' = after_decode_error([load EXCEPT
               !.log[load.f].tried = Append(@, ENCODINGS[load.e])])
    /\ UNCHANGED <<text, chunks, documents, chunked, rechunked, cpc>>
    /\ UNCHANGED pvars

\* lines 112-114: the loop over the files is over, documents is returned
LoadReturn ==
    /\ load.pc = "files"
    /\ load.f > Len(load.pgn_files)
    /\ load' = [load EXCEPT !.pc = "done"]
    /\ UNCHANGED <<text, chunks, documents, chunked, rechunked, cpc>>
    /\ UNCHANGED pvars

NextLoad == LoadStart \/ ReadDecodes \/ ReadFails \/ LoadReturn

SpecLoad == InitLoad /\ [][NextLoad]_vars

----------------------------------------------------------------------------
(* SpecBuild: runs of create_index.main, step by step *)

InitBuild ==
    /\ ChunkIdle
    /\ files = <<>>
    /\ uuids = 0
    /\ build = NoBuild
    /\ search = NoSearch

\* main up to create_embeddings: load_pgn_files, the empty check,
\* chunk_documents
MainLoad ==
    /\ build.pc = "idle"
    /\ uuids < MaxBuilds
    /\ \E docs \in Archives :
        build' = IF docs = <<>>
                 THEN [NoBuild EXCEPT !.pc = "done", !.outcome = "no_documents"]
                 ELSE [NoBuild EXCEPT !.pc = "create_embeddings",
                                      !.documents = docs,
                                      !.processed_documents = chunk_documents(docs)]
    /\ UNCHANGED <<files, uuids, search>>
    /\ UNCHANGED cvars

\* one round of the loop of create_embeddings, the call succeeding
CreateEmbedding ==
    /\ build.pc = "create_embeddings"
    /\ build.i < Len(build.processed_documents)
    /\ build' = [build EXCEPT
                   !.i = build.i + 1,
                   !.embeddings = Append(build.embeddings,
                       OpenAIEmbedding(EMBEDDING_MODEL,
                           build.processed_documents[build.i + 1].description))]
    /\ UNCHANGED <<files, uuids, search>>
    /\ UNCHANGED cvars

\* one round of the loop of create_embeddings, the call raising
EmbeddingFails ==
    /\ build.pc = "create_embeddings"
    /\ build.i < Len(build.processed_documents)
    /\ build' = embedding_failure(build)
    /\ UNCHANGED <<files, uuids, search>>
    /\ UNCHANGED cvars

\* create_faiss_index, then the head of save_embeddings_and_index: uuid4
CreateIndex ==
    /\ build.pc = "create_embeddings"
    /\ build.i = Len(build.processed_documents)
    /\ build.embeddings # <<>>    \* documents, hence chunks, are not empty
    /\ uuids' = uuids + 1
    /\ build' = [build EXCEPT !.pc = write_order[1],
                              !.index = create_faiss_index(build.embeddings),
                              !.index_id = Uuid(uuids + 1)]
    /\ UNCHANGED <<files, search>>
    /\ UNCHANGED cvars

\* one write of save_embeddings_and_index; main returns after the last
SaveStep(pc, content) ==
    /\ build.pc = pc
    /\ files' = write(files, Path(step_kind(pc), build.index_id), content)
    /\ build' = [build EXCEPT
                   !.pc = after_write(pc),
                   !.outcome = IF after_write(pc) = "done" THEN "saved" ELSE @,
                   !.written = @ \cup {Path(step_kind(pc), build.index_id)}]
    /\ UNCHANGED <<uuids, search>>
    /\ UNCHANGED cvars

\* pickle.dump(embeddings, ...)
SaveEmbeddings == SaveStep("save_embeddings", build.embeddings)

\* faiss.write_index(index, ...)
SaveIndex == SaveStep("save_index", build.index)

\* pickle.dump(processed_documents, ...)
SaveDocuments == SaveStep("save_documents", build.processed_documents)

\* save_metadata(embedding_model, index_id)
SaveMetadata ==
    /\ files' = save_metadata(files, EMBEDDING_MODEL, build.index_id)
    /\ SaveStep("save_metadata", metadata_of(EMBEDDING_MODEL, build.index_id))

\* a write of save_embeddings_and_index raises: main ends, what was written
\* stays, and the file being written is absent (open failed) or truncated
WriteFails ==
    /\ build.pc \in {write_order[j] : j \in 1..Len(write_order)}
    /\ \E opened \in BOOLEAN :
        LET path == Path(step_kind(build.pc), build.index_id)
        IN  /\ files' = IF opened THEN write(files, path, Truncated)
                        ELSE files
            /\ build' = [build EXCEPT
                   !.pc = "done", !.outcome = "write_failed",
                   !.written = IF opened THEN @ \cup {path} ELSE @]
    /\ UNCHANGED <<uuids, search>>
    /\ UNCHANGED cvars

\* the process of the run ends
BuildExit ==
    /\ build.pc = "done"
    /\ build' = NoBuild
    /\ UNCHANGED <<files, uuids, search>>
    /\ UNCHANGED cvars

NextBuild ==
    \/ MainLoad \/ CreateEmbedding \/ EmbeddingFails \/ CreateIndex
    \/ SaveEmbeddings \/ SaveIndex \/ SaveDocuments \/ SaveMetadata
    \/ WriteFails \/ BuildExit

SpecBuild == InitBuild /\ [][NextBuild]_vars

----------------------------------------------------------------------------
(* Spec: calls of search_games over a store filled by runs of main *)

Queries == {GameA, GameB}

\* what SentenceTransformer(model_name).encode([query])[0] may come to
QueryPoints == {EmbeddingPoint(t) : t \in Queries}

Init ==
    /\ ChunkIdle
    /\ files = <<>>
    /\ uuids = 0
    /\ build = NoBuild
    /\ search = NoSearch

\* a run of main that reaches its end: one more bundle in the store.  (A run
\* that aborts adds no manifest: see SpecBuild.)
RunMain ==
    /\ search.pc = "idle"
    /\ uuids < MaxBuilds
    /\ \E docs \in Archives :
        /\ docs # <<>>
        /\ LET processed_documents == chunk_documents(docs)
               embeddings == create_embeddings(processed_documents)
               faiss_index == create_faiss_index(embeddings)
           IN  files' = save_embeddings_and_index(files, embeddings,
                            faiss_index, processed_documents,
                            EMBEDDING_MODEL, Uuid(uuids + 1))
    /\ uuids' = uuids + 1
    /\ UNCHANGED <<build, search>>
    /\ UNCHANGED cvars

\* search_games, lines 50-74: the client, the manifests, the bundle
SearchCall ==
    /\ search.pc = "idle"
    /\ \E query \in Queries, num_results \in 1..MaxK,
          dataset_id \in {NoId} \cup {Uuid(n) : n \in 1..(MaxBuilds + 1)},
          return_str \in BOOLEAN, client \in {None, "client"},
          api_key \in BOOLEAN, all_metadata \in load_all_metadata(files) :
        /\ client # None => api_key
        /\ LET call == [NoSearch EXCEPT !.query = query,
                                        !.num_results = num_results,
                                        !.dataset_id = dataset_id,
                                        !.return_str = return_str,
                                        !.previous = search.previous]
           IN
           IF client = None /\ ~api_key
           THEN search' = returned(call, MSG_NO_KEY)
           ELSE IF all_metadata = <<>>
           THEN search' = returned(call, MSG_NO_INDEX)
           ELSE LET metadata == resolve_metadata(all_metadata, dataset_id)
                    loaded == load_embeddings_and_index(files, metadata)
                    found == [call EXCEPT !.all_metadata = all_metadata,
                                          !.metadata = metadata]
                IN  IF ~loaded.ok
                    THEN search' = returned(found, MSG_LOAD_FAILED)
                    ELSE search' = [found EXCEPT
                        !.pc = "encode",
                        !.index = loaded.index,
                        !.processed_documents = loaded.processed_documents,
                        !.model_name = loaded.model_name]
    /\ UNCHANGED <<files, uuids, build>>
    /\ UNCHANGED cvars

\* lines 77-78: the query is encoded
EncodeQuery ==
    /\ search.pc = "encode"
    /\ \E pt \in QueryPoints :
        search' = [search EXCEPT
            !.pc = "index_search",
            !.calls = @ + 1,
            !.encoder = encoder_model(search.model_name),
            !.query_embedding =
                [space |-> <<"sentence-transformers",
                             encoder_model(search.model_name)>>,
                 pt |-> pt]]
    /\ UNCHANGED <<files, uuids, build>>
    /\ UNCHANGED cvars

\* lines 77-78: SentenceTransformer(model_name) or encode raises
EncodeQueryFails ==
    /\ search.pc = "encode"
    /\ search' = raised([search EXCEPT
                            !.calls = @ + 1,
                            !.encoder = encoder_model(search.model_name)],
                        "embedding call failed")
    /\ UNCHANGED <<files, uuids, build>>
    /\ UNCHANGED cvars

\* line 81: index.search, the encoder's vectors being as wide as the index's
IndexSearch ==
    /\ search.pc = "index_search"
    /\ LET found == index_search(search.index, search.query_embedding,
                                 search.num_results)
       IN  search' = [search EXCEPT !.pc = "format",
                                    !.D = found.D, !.I = found.I]
    /\ UNCHANGED <<files, uuids, build>>
    /\ UNCHANGED cvars

\* line 81: index.search rejects a query vector of another width
IndexSearchFails ==
    /\ search.pc = "index_search"
    /\ search.query_embedding.space # search.index.d
    /\ search' = raised(search, "index.search: wrong dimension")
    /\ UNCHANGED <<files, uuids, build>>
    /\ UNCHANGED cvars

\* lines 85-87, one round: the hit's chunk is formatted by the LLM
FormatGame ==
    /\ search.pc = "format"
    /\ Len(search.results) < hits(search.I)
    /\ LET idx == Len(search.results) + 1
           distance == search.D[idx]
           doc_idx == search.I[idx]
       IN  search' = [search EXCEPT !.calls = @ + 1, !.results = Append(@,
               [idx |-> idx, similarity |-> 1 - distance, doc_idx |-> doc_idx,
                game |-> PyIndex(search.processed_documents, doc_idx)])]
    /\ UNCHANGED <<files, uuids, build>>
    /\ UNCHANGED cvars

\* lines 85-87, one round: format_game_with_llm raises
FormatGameFails ==
    /\ search.pc = "format"
    /\ Len(search.results) < hits(search.I)
    /\ search' = raised([search EXCEPT !.calls = @ + 1],
                        "generation call failed")
    /\ UNCHANGED <<files, uuids, build>>
    /\ UNCHANGED cvars

\* lines 90-94: the results are printed, None is returned
PrintResults ==
    /\ search.pc = "format"
    /\ Len(search.results) = hits(search.I)
    /\ ~search.return_str
    /\ search' = returned(search, None)
    /\ UNCHANGED <<files, uuids, build>>
    /\ UNCHANGED cvars

\* lines 97-118: the summary of the results is generated and returned
Summarize ==
    /\ search.pc = "format"
    /\ Len(search.results) = hits(search.I)
    /\ search.return_str
    /\ search' = returned([search EXCEPT !.calls = @ + 1], "summary")
    /\ UNCHANGED <<files, uuids, build>>
    /\ UNCHANGED cvars

\* lines 109-116: the summary call raises
SummarizeFails ==
    /\ search.pc = "format"
    /\ Len(search.results) = hits(search.I)
    /\ search.return_str
    /\ search' = raised([search EXCEPT !.calls = @ + 1],
                        "generation call failed")
    /\ UNCHANGED <<files, uuids, build>>
    /\ UNCHANGED cvars

\* the caller has the outcome (the page keeps the response in its message
\* history); the next call starts afresh
SearchClose ==
    /\ search.pc = "done"
    /\ search' = [NoSearch EXCEPT !.previous = search.output]
    /\ UNCHANGED <<files, uuids, build>>
    /\ UNCHANGED cvars

Next ==
    \/ RunMain \/ SearchCall \/ EncodeQuery \/ EncodeQueryFails
    \/ IndexSearch \/ IndexSearchFails \/ FormatGame \/ FormatGameFails
    \/ PrintResults \/ Summarize \/ SummarizeFails \/ SearchClose

Spec == Init /\ [][Next]_vars

----------------------------------------------------------------------------
(* Claims about chunk_text and chunk_documents (checked under SpecChunk) *)

\* ceil(a / b) for a >= 0 and b > 0
CeilDiv(a, b) == (a + b - 1) \div b

TextWords == WordCount(Split(text))

\* w / 0.75 <= 6000
WithinBudget(w) == 4 * w <= 3 * 6000

\* C3 as stated: a description of w words is returned whole when
\* w / 0.75 <= 6000, and is cut into ceil((w - 3000) / 2900) + 1 windows
\* otherwise.
C3_AsStated ==
    cpc = "chunk_text" =>
        IF WithinBudget(TextWords)
        THEN chunks = <<text>>
        ELSE Len(chunks) = CeilDiv(TextWords - 3000, 2900) + 1

\* C3 amended: a description of w words is returned whole when
\* w / 0.75 <= 6000, and is cut into ceil(w / 2900) windows otherwise (one
\* window for every start 0, 2900, 5800, ... below w).
C3_WindowCount ==
    cpc = "chunk_text" =>
        IF WithinBudget(TextWords)
        THEN chunks = <<text>>
        ELSE Len(chunks) = CeilDiv(TextWords, 2900)

\* 5801 words: windows start at 0, 2900 and 5800, the last holding one word
C3_Witness ==
    /\ cpc = "chunk_text"
    /\ TextWords = 5801
    /\ Len(chunks) = 3
    /\ WordCount(Split(chunks[3])) = 1

\* C10: when chunk_text splits a description, window j (counted from 0) is
\* the words from 2900*j up to 2900*j + 3000, no window holds more than 3000
\* words, and two adjacent windows share exactly 100 words unless the second
\* is the final window; every chunk returned, split or not, has
\* word_count / 0.75 <= 6000.
C10_Windows ==
    cpc = "chunk_text" =>
        /\ ~WithinBudget(TextWords) =>
            /\ \A j \in 1..Len(chunks) :
                /\ chunks[j] =
                     Join(Slice(Split(text), 2900 * (j - 1), 2900 * (j - 1) + 3000))
                /\ WordCount(Split(chunks[j])) <= 3000
            /\ \A j \in 1..(Len(chunks) - 2) :
                LET a == Split(chunks[j])
                    b == Split(chunks[j + 1])
                    shared == 2900 * (j - 1) + WordCount(a) - 2900 * j
                IN  /\ shared = 100
                    /\ Drop(a, WordCount(a) - 100) = Take(b, 100)
        /\ \A j \in 1..Len(chunks) : WithinBudget(WordCount(Split(chunks[j])))

\* 8701 words in two different words: four windows, the last pair sharing
\* one word only
C10_Witness ==
    /\ cpc = "chunk_text"
    /\ TextWords = 8701
    /\ Len(Split(text)) = 2
    /\ Len(chunks) = 4
    /\ WordCount(Split(chunks[3])) = 2901
    /\ WordCount(Split(chunks[4])) = 1

\* every chunk of every record, in input order, with its record's source
RECURSIVE AllChunks(_)
AllChunks(docs) ==
    IF docs = <<>> THEN <<>>
    ELSE LET cs == chunk_text(Head(docs).description) IN
         [j \in 1..Len(cs) |-> Doc(cs[j], Head(docs).source)]
         \o AllChunks(Tail(docs))

\* the entries of seq at the positions in idx, in their order in seq
RECURSIVE Pick(_, _, _)
Pick(seq, idx, i) ==
    IF i > Len(seq) THEN <<>>
    ELSE (IF i \in idx THEN <<seq[i]>> ELSE <<>>) \o Pick(seq, idx, i + 1)

Collapsed(d) == chunk_normalized(d.description)

\* C8: chunk_documents returns no two chunks whose whitespace-collapsed texts
\* are equal, and what it returns is, in the original order, the first
\* occurrence (with that occurrence's source) of every distinct collapsed
\* text among the chunks of the records.
C8_Dedup ==
    cpc \in {"chunked", "rechunked"} =>
        LET all == AllChunks(documents)
            firsts == {i \in 1..Len(all) :
                        \A j \in 1..(i - 1) : Collapsed(all[j]) # Collapsed(all[i])}
        IN  /\ \A i, j \in 1..Len(chunked) :
                    i # j => Collapsed(chunked[i]) # Collapsed(chunked[j])
            /\ chunked = Pick(all, firsts, 1)

\* a batch where a later chunk is dropped although its text differs from the
\* kept one in whitespace only, and where more than one chunk is kept
C8_Witness ==
    /\ cpc = "chunked"
    /\ Len(chunked) >= 2
    /\ \E i, j \in 1..Len(AllChunks(documents)) :
        LET all == AllChunks(documents) IN
        /\ i < j
        /\ all[i].description # all[j].description
        /\ Collapsed(all[i]) = Collapsed(all[j])
        /\ all[i].source # all[j].source
        /\ all[i] \in {chunked[k] : k \in 1..Len(chunked)}
        /\ all[j] \notin {chunked[k] : k \in 1..Len(chunked)}

\* C9: chunk_documents applied to its own output returns that output: the
\* same texts, the same sources, the same order.
C9_Idempotent ==
    cpc = "rechunked" => rechunked = chunked

\* a batch with a split record and a dropped duplicate, chunked twice
C9_Witness ==
    /\ cpc = "rechunked"
    /\ Len(chunked) >= 3
    /\ Len(chunked) < Len(AllChunks(documents))
    /\ \E k \in 1..Len(chunked) : WordCount(Split(chunked[k].description)) = 3000

----------------------------------------------------------------------------
(* Claims about the build (checked under SpecBuild) *)

\* C7: whatever build runs have happened, embedding failures included, every
\* bundle in the store has one vector per chunk, vector i being the embedding
\* of chunk i, in the vectors artifact and in the index alike; and a run
\* whose embedding call failed has written none of the four artifacts.
C7_Aligned ==
    /\ \A id \in StoredIds :
        (/\ Path("metadata", id) \in DOMAIN files
         /\ files[Path("metadata", id)] # Truncated) =>
            LET vectors == files[Path("embeddings", id)]
                docs == files[Path("processed_documents", id)]
            IN  /\ Len(vectors) = Len(docs)
                /\ \A i \in 1..Len(docs) :
                    vectors[i] = OpenAIEmbedding("text-embedding-3-large",
                                                 docs[i].description)
                /\ files[Path("index", id)].xb = vectors
    /\ build.outcome = "embedding_failed" =>
        /\ build.written = {}
        /\ build.index_id = NoId

\* a run whose second embedding call failed, beside a saved bundle of two
\* chunks
C7_Witness ==
    /\ build.outcome = "embedding_failed"
    /\ build.i = 1
    /\ Len(build.processed_documents) = 2
    /\ \E id \in StoredIds :
        /\ Path("metadata", id) \in DOMAIN files
        /\ Len(files[Path("processed_documents", id)]) = 2

----------------------------------------------------------------------------
(* Claims about search_games (checked under Spec) *)

\* the bundle a call has loaded holds this many chunks
Indexed == Len(search.processed_documents)

\* C1: a call with num_results = k on a bundle of n chunks never holds more
\* than min(k, n) result entries, every entry refers to a chunk position in
\* 0..n-1, no two to the same one, and a finished call with k > n holds
\* exactly n entries.
C1_AtMostAvailable ==
    search.pc \in {"format", "done"} /\ Indexed > 0 =>
        LET k == search.num_results
            n == Indexed
            entries == search.results
        IN  /\ Len(entries) <= (IF k < n THEN k ELSE n)
            /\ \A r \in 1..Len(entries) : entries[r].doc_idx \in 0..(n - 1)
            /\ \A r, q \in 1..Len(entries) :
                r # q => entries[r].doc_idx # entries[q].doc_idx
            /\ (search.outcome \in {"returned", "printed"} /\ k > n) =>
                Len(entries) = n

\* C2: no call of search_games ends with an exception leaving it: a missing
\* index, a failed embedding call and a failed generation call all end in a
\* message returned or printed.
C2_NoException ==
    search.pc = "done" => search.outcome \in {"returned", "printed"}

\* C4: on a store with manifests, a call that names the dataset_id of one of
\* them loads that bundle, wherever its manifest stands in the list, and a
\* call that names none loads the bundle of the first manifest of the list.
C4_Resolved ==
    search.pc # "idle" /\ search.all_metadata # <<>> =>
        LET ms == search.all_metadata
            loads(m) ==
                /\ search.metadata = m
                /\ search.index = files[Path("index", m.index_id)]
                /\ search.processed_documents =
                       files[Path("processed_documents", m.index_id)]
        IN  /\ \A i \in 1..Len(ms) :
                ms[i].dataset_id = search.dataset_id => loads(ms[i])
            /\ search.dataset_id = NoId => loads(ms[1])

\* the bundle asked for stands second in the list and differs from the first
C4_Witness ==
    /\ search.pc = "format"
    /\ Len(search.all_metadata) = 2
    /\ search.all_metadata[2].dataset_id = search.dataset_id
    /\ Len(search.processed_documents) = 2
    /\ Len(files[search.all_metadata[1].files.documents]) = 1
    /\ search.results # <<>>

C6_ExactTextTopHit ==
    \A i \in 1..Indexed :
        search.processed_documents[i].description = search.query =>
            /\ search.query_embedding # NoVector =>
                    search.query_embedding.pt = search.index.xb[i].pt
            /\ search.pc = "done" =>
                /\ search.outcome \in {"returned", "printed"}
                /\ search.results # <<>>
                /\ search.results[1].doc_idx = i - 1
                /\ search.results[1].similarity = 1

----------------------------------------------------------------------------
(* Claim C11: a call on a store without a manifest *)

Manifests(fs) == {p \in DOMAIN fs : p[1] = "metadata"}

\* the message of the "no index" condition, handed over as the mode asks,
\* no embedding or text-generation call having been made
NoIndexEnd(s) ==
    /\ s.pc = "done"
    /\ s.output = MSG_NO_INDEX
    /\ s.outcome = (IF s.return_str THEN "returned" ELSE "printed")
    /\ s.calls = 0
    /\ s.encoder = None
    /\ s.results = <<>>

\* a call that has got past the manifests: a bundle is loaded, or the load
\* has failed with its own message
PastManifests(s) ==
    /\ s.output # MSG_NO_INDEX
    /\ s.all_metadata # <<>>
    /\ \/ s.processed_documents # <<>>
       \/ s.pc = "done" /\ s.output = MSG_LOAD_FAILED

\* C11 as stated: whenever the store holds no manifest, search_games ends
\* with the "no index" message, whatever the client and the API key.
C11_AsStated ==
    (search.pc # "idle" /\ Manifests(files) = {}) => NoIndexEnd(search)

\* C11, amended: a call that has a client (one handed in, or one made from
\* the API key of the environment) and finds no manifest in the store ends
\* with the "no index" message, returned in return_str mode and printed
\* otherwise, without any embedding or text-generation call; no step of a
\* call changes the store; and a call on a store that holds a manifest
\* never ends with that message but goes on to load a bundle, whatever the
\* calls before it ended with.
C11_NoIndex ==
    /\ [](search.pc # "idle" /\ search.output # MSG_NO_KEY =>
            IF Manifests(files) = {} THEN NoIndexEnd(search)
            ELSE PastManifests(search))
    /\ [][search.pc # "idle" \/ search'.pc # "idle" => files' = files]_vars

\* a call is searching a bundle, the call before it having ended with the
\* "no index" message
C11_Witness ==
    /\ search.previous = MSG_NO_INDEX
    /\ search.pc = "format"
    /\ search.results # <<>>
    /\ search.calls > 1

----------------------------------------------------------------------------
(* Claim C14: a dataset_id that no manifest carries *)

\* the call names a dataset_id and no manifest of its list carries it
Unmatched(s) ==
    /\ s.all_metadata # <<>>
    /\ s.dataset_id # NoId
    /\ \A i \in 1..Len(s.all_metadata) :
            s.all_metadata[i].dataset_id # s.dataset_id

\* what a call without dataset_id loads from the same list: the bundle of
\* the first manifest
FirstBundle(s) == load_embeddings_and_index(files, s.all_metadata[1])

\* C14: a call on a non-empty store whose dataset_id matches no manifest
\* reports neither a missing index nor a failed load: it takes the first
\* manifest of the list and searches that manifest's bundle, as a call
\* without dataset_id does.
C14_SilentFallback ==
    (search.pc # "idle" /\ Unmatched(search)) =>
        /\ search.metadata = search.all_metadata[1]
        /\ search.metadata = resolve_metadata(search.all_metadata, NoId)
        /\ search.output \notin {MSG_NO_INDEX, MSG_LOAD_FAILED, MSG_NO_KEY}
        /\ FirstBundle(search).ok
        /\ search.index = FirstBundle(search).index
        /\ search.processed_documents = FirstBundle(search).processed_documents
        /\ search.model_name = FirstBundle(search).model_name

\* two bundles are stored, the call names a third dataset_id, and the first
\* manifest's bundle is being searched
C14_Witness ==
    /\ Unmatched(search)
    /\ Len(search.all_metadata) = 2
    /\ search.pc = "format"
    /\ search.results # <<>>
    /\ search.metadata = search.all_metadata[1]

----------------------------------------------------------------------------
(* Claim C13: the manifest is the last file of a bundle to be written *)

ArtifactKinds == {"embeddings", "index", "processed_documents"}

\* C13: in every state of the store, a save interrupted at any of its writes
\* included, a manifest file is there only when the vectors, index and
\* chunk-list files of the same index_id are; and a manifest that was
\* written out whole carries that index_id and names exactly these three
\* files.
C13_ManifestLast ==
    \A p \in DOMAIN files :
        p[1] = "metadata" =>
            /\ \A kind \in ArtifactKinds : Path(kind, p[2]) \in DOMAIN files
            /\ files[p] # Truncated =>
                /\ files[p].index_id = p[2]
                /\ files[p].files.embeddings = Path("embeddings", p[2])
                /\ files[p].files.index = Path("index", p[2])
                /\ files[p].files.documents =
                        Path("processed_documents", p[2])

\* a save has been interrupted after its vectors and while writing its
\* index, beside a bundle saved whole: the interrupted run has no manifest
C13_Witness ==
    /\ build.outcome = "write_failed"
    /\ build.written = {Path("embeddings", build.index_id),
                        Path("index", build.index_id)}
    /\ files[Path("index", build.index_id)] = Truncated
    /\ Path("metadata", build.index_id) \notin DOMAIN files
    /\ \E id \in StoredIds :
        /\ id # build.index_id
        /\ Path("metadata", id) \in DOMAIN files
        /\ files[Path("metadata", id)] # Truncated

----------------------------------------------------------------------------
(* Claim C12: the encodings tried by load_pgn_files *)

\* the file has been left behind by the loop over the files
Finished(i) == load.pc = "done" \/ (load.pc = "files" /\ i < load.f)

\* the records of the files extracted so far, each file's once, in order
RECURSIVE Extracted(_)
Extracted(n) ==
    IF n = 0 THEN <<>>
    ELSE IF load.log[n].used = <<>> THEN Extracted(n - 1)
    ELSE read_games(load.pgn_files[n], PgnName(n),
             [documents |-> Extracted(n - 1), game_count |-> 0]).documents

\* for each file: the encodings are tried in the order of the list, the
\* games are extracted at most once, under the encoding tried last (all
\* tried before it having failed), and a file left behind without an
\* extraction has failed under all four; every file is reached before
\* documents is returned
TriedInOrder ==
    /\ \A i \in 1..Len(load.log) :
        LET r == load.log[i]
        IN  /\ Len(r.tried) <= Len(ENCODINGS)
            /\ r.tried = SubSeq(ENCODINGS, 1, Len(r.tried))
            /\ Len(r.used) <= 1
            /\ r.used # <<>> => r.used[1] = r.tried[Len(r.tried)]
            /\ r.used # <<>> => Finished(i)
            /\ (Finished(i) /\ r.used = <<>>) =>
                    r.tried = ENCODINGS /\ r.records = 0
            /\ Finished(i) => r.tried # <<>>
    /\ load.pc # "idle" => load.documents = Extracted(Len(load.log))
    /\ load.pc = "done" => load.f = Len(load.pgn_files) + 1

\* C12 as stated: ... and a file contributes no records only after all
\* four encodings have failed.
C12_AsStated ==
    /\ TriedInOrder
    /\ \A i \in 1..Len(load.log) :
        (Finished(i) /\ load.log[i].records = 0) =>
            load.log[i].tried = ENCODINGS /\ load.log[i].used = <<>>

\* C12, amended: for each archive file the encodings utf-8, latin-1,
\* iso-8859-1, cp1252 are tried in that order; the file's games are
\* extracted under the first encoding that decodes and no later encoding is
\* tried for it, so no game is extracted twice; a file is passed over
\* without an extraction only after all four encodings have failed, while a
\* file that decodes contributes as many records as its parts parse into
\* games, possibly none; in either case the next file is processed.
C12_Encodings ==
    /\ TriedInOrder
    /\ \A i \in 1..Len(load.log) :
        (Finished(i) /\ load.log[i].used # <<>>) =>
            load.log[i].records =
                Len(read_games(load.pgn_files[i], PgnName(i),
                        [documents |-> <<>>, game_count |-> 0]).documents)

\* the first file failed under utf-8 and gave its two games under latin-1,
\* the second decoded at once without a game in it, and documents was
\* returned
C12_Witness ==
    /\ load.pc = "done"
    /\ Len(load.pgn_files) = 2
    /\ load.log[1].tried = <<"utf-8", "latin-1">>
    /\ load.log[1].used = <<"latin-1">>
    /\ load.log[1].records = 2
    /\ load.log[2].tried = <<"utf-8">>
    /\ load.log[2].records = 0
    /\ Len(load.documents) = 2
    /\ load.total_games = 3

====
